---- MODULE Spec2Model ----
(***************************************************************************)
(* A model of the two scripts of the Bambu Lab RFID library:               *)
(*   scripts/gen_missing_key.py  (walk, key.bin synthesis, batch loop)     *)
(*   scripts/gen_excel.py        (walk, path classification, report loop)  *)
(*                                                                         *)
(* Strings whose characters the code inspects (directory names, file      *)
(* names, hexadecimal keys, UIDs) are tuples of one-character strings.    *)
(* A path is the tuple of its parts, as pathlib's Path.parts gives them;  *)
(* the walk starts at Path("..").  Python dicts are TLA+ functions whose  *)
(* domain is the set of keys present.                                     *)
(***************************************************************************)
EXTENDS Integers, Sequences, FiniteSets, TLC

VARIABLES
    fs,                 \* directory path -> (file name -> file content)
    pc,                 \* "walk" | "synth" | "report" | "done"
    run,                \* which invocation of the tool this is (1, 2, ...)
    stack,              \* os.walk: the directories still to be yielded, next first
    missing_key_dirs,   \* gen_missing_key: the list find_missing_key_files builds
    rfid_files,         \* gen_excel: the list find_rfid_files builds
    idx,                \* 1-based position of the batch loop (enumerate(..., 1))
    success_count,      \* gen_missing_key.main
    failed_count,       \* gen_missing_key.main
    failed_dirs,        \* gen_missing_key.main
    last,               \* <<what the last generate_key_file call returned>>, if any
    data_list,          \* gen_excel.main: the rows
    stats,              \* gen_excel.main: the counters of the summary sheet
    path_info,          \* gen_excel.main: <<what the last extract_path_info call returned>>
    entered,            \* history: the directories os.walk has yielded in this run
    classified,         \* history: the directories that passed the UID-directory test
    calls,              \* history: this run's generate_key_file / parse_rfid_file calls
    writes              \* history: every file write, over all runs

vars == <<fs, pc, run, stack, missing_key_dirs, rfid_files, idx, success_count,
          failed_count, failed_dirs, last, data_list, stats, path_info, entered,
          classified, calls, writes>>

(***************************************************************************)
(* Bounds of the model.                                                    *)
(***************************************************************************)
\* The deepest directory chain below the root in the trees of Spec.
MaxDepth == 2
\* The deepest directory chain below the root in the trees of SpecReport.
MaxReportDepth == 3
\* How many times the tool is run over the same tree.
MaxRuns == 2
\* How many sector entries a Key-Dump Document of SpecKey holds at most.
MaxEntries == 2

(***************************************************************************)
(* Python helpers.                                                         *)
(***************************************************************************)
\* {} : the empty dict.
EmptyDict == [k \in {} |-> k]

\* dict.get(key, default)
Get(d, key, default) == IF key \in DOMAIN d THEN d[key] ELSE default

\* str.endswith(suffix)
EndsWith(s, suffix) ==
    /\ Len(s) >= Len(suffix)
    /\ SubSeq(s, Len(s) - Len(suffix) + 1, Len(s)) = suffix

\* The decimal digits, for str(int).
DecDigit == <<"0", "1", "2", "3", "4", "5", "6", "7", "8", "9">>

\* str(n) for a natural number n.
RECURSIVE Str(_)
Str(n) == IF n < 10 THEN DecDigit[n + 1]
          ELSE Str(n \div 10) \o DecDigit[(n % 10) + 1]

\* The value of a hexadecimal digit, as bytes.fromhex reads it.
HexValue ==
    "0" :> 0 @@ "1" :> 1 @@ "2" :> 2 @@ "3" :> 3 @@ "4" :> 4 @@ "5" :> 5 @@
    "6" :> 6 @@ "7" :> 7 @@ "8" :> 8 @@ "9" :> 9 @@
    "a" :> 10 @@ "b" :> 11 @@ "c" :> 12 @@ "d" :> 13 @@ "e" :> 14 @@ "f" :> 15 @@
    "A" :> 10 @@ "B" :> 11 @@ "C" :> 12 @@ "D" :> 13 @@ "E" :> 14 @@ "F" :> 15

\* The ASCII whitespace bytes.fromhex skips between two bytes.
Whitespace == {" ", "\t", "\n", "\r"}

\* bytes.fromhex(s) from position i on: whitespace is skipped before a byte,
\* then two hexadecimal digits are read; anything else raises ValueError.
RECURSIVE FromHexFrom(_, _)
FromHexFrom(s, i) ==
    IF i > Len(s) THEN [ok |-> TRUE, bytes |-> <<>>]
    ELSE IF s[i] \in Whitespace THEN FromHexFrom(s, i + 1)
    ELSE IF s[i] \notin DOMAIN HexValue THEN [ok |-> FALSE, bytes |-> <<>>]
    ELSE IF i + 1 > Len(s) \/ s[i + 1] \notin DOMAIN HexValue
         THEN [ok |-> FALSE, bytes |-> <<>>]
    ELSE LET rest == FromHexFrom(s, i + 2)
         IN  IF rest.ok
             THEN [ok |-> TRUE,
                   bytes |-> <<16 * HexValue[s[i]] + HexValue[s[i + 1]]>> \o rest.bytes]
             ELSE [ok |-> FALSE, bytes |-> <<>>]

\* bytes.fromhex(s)
FromHex(s) == FromHexFrom(s, 1)

(***************************************************************************)
(* gen_missing_key.py: generate_key_file.                                  *)
(***************************************************************************)
\* range(16): the sectors of a MIFARE Classic 1K card.
NumSectors == 16

\* 'FFFFFFFFFFFF', the default of both .get calls.
DefaultKey == <<"F", "F", "F", "F", "F", "F", "F", "F", "F", "F", "F", "F">>

\* sector_keys.get(sec_str, {}).get(field, 'FFFFFFFFFFFF')
KeyHex(sector_keys, sector, field) ==
    Get(Get(sector_keys, Str(sector), EmptyDict), field, DefaultKey)

\* One of the two loops over range(16): key_bytes += bytes.fromhex(...) for the
\* sectors from `sector` on; a ValueError of fromhex ends the loop.
RECURSIVE CollectKeys(_, _, _)
CollectKeys(sector_keys, field, sector) ==
    IF sector >= NumSectors THEN [ok |-> TRUE, bytes |-> <<>>]
    ELSE LET one  == FromHex(KeyHex(sector_keys, sector, field))
         IN  IF ~one.ok THEN [ok |-> FALSE, bytes |-> <<>>]
             ELSE LET rest == CollectKeys(sector_keys, field, sector + 1)
                  IN  IF rest.ok THEN [ok |-> TRUE, bytes |-> one.bytes \o rest.bytes]
                      ELSE [ok |-> FALSE, bytes |-> <<>>]

\* A variant of KeyBytes that runs the KeyB loop before the KeyA loop.
KeyBytesBFirst(sector_keys) ==
    LET a == CollectKeys(sector_keys, "KeyA", 0)
        b == CollectKeys(sector_keys, "KeyB", 0)
    IN  IF a.ok /\ b.ok THEN [ok |-> TRUE, bytes |-> b.bytes \o a.bytes]
        ELSE [ok |-> FALSE, bytes |-> <<>>]

\* key_bytes after both loops: the KeyA loop, then the KeyB loop.
KeyBytes(sector_keys) ==
    LET a == CollectKeys(sector_keys, "KeyA", 0)
        b == CollectKeys(sector_keys, "KeyB", 0)
    IN  IF a.ok /\ b.ok THEN [ok |-> TRUE, bytes |-> a.bytes \o b.bytes]
        ELSE [ok |-> FALSE, bytes |-> <<>>]

\* A variant of OutputName: f'hf-mf-{uid}-keys.bin', which does not end in
\* 'key.bin'.
OutputNameKeys(uid) ==
    <<"h", "f", "-", "m", "f", "-">> \o uid \o <<"-", "k", "e", "y", "s", ".", "b", "i", "n">>

\* f'hf-mf-{uid}-key.bin'
OutputName(uid) ==
    <<"h", "f", "-", "m", "f", "-">> \o uid \o <<"-", "k", "e", "y", ".", "b", "i", "n">>

\* None
None == <<>>

\* What `return False, str(e), None` gives, with the exception's kind for str(e).
Failure(files, error) ==
    [success |-> FALSE, result |-> error, output_path |-> None, files |-> files]

\* uid = data['Card']['UID']: <<uid>>, or None where Python raises KeyError.
LookupUid(data) ==
    IF "Card" \in DOMAIN data /\ "UID" \in DOMAIN data["Card"]
    THEN <<data["Card"]["UID"]>>
    ELSE None

\* A variant of LookupSectorKeys: data.get('SectorKeys', {}).
LookupSectorKeysDefault(data) ==
    IF "SectorKeys" \in DOMAIN data THEN <<data["SectorKeys"]>> ELSE <<EmptyDict>>

\* sector_keys = data['SectorKeys']: <<sector_keys>>, or None where Python
\* raises KeyError.
LookupSectorKeys(data) ==
    IF "SectorKeys" \in DOMAIN data THEN <<data["SectorKeys"]>> ELSE None

\* generate_key_file(directory, json_filename), on the files of the whole tree:
\* the returned triple, and the tree's files afterwards.  Every exception of
\* the try block is raised before the output file is opened.
generate_key_file(files, directory, json_filename) ==
    IF json_filename \notin DOMAIN files[directory]
    THEN Failure(files, "FileNotFoundError")
    ELSE LET content == files[directory][json_filename] IN
    IF ~content.parses THEN Failure(files, "JSONDecodeError")
    ELSE LET uid == LookupUid(content.data) IN
    IF uid = None THEN Failure(files, "KeyError")
    ELSE LET sector_keys == LookupSectorKeys(content.data) IN
    IF sector_keys = None THEN Failure(files, "KeyError")
    ELSE LET key_bytes == KeyBytes(sector_keys[1]) IN
    IF ~key_bytes.ok THEN Failure(files, "ValueError")
    ELSE LET name == OutputName(uid[1]) IN
         [success     |-> TRUE,
          result      |-> Len(key_bytes.bytes),
          output_path |-> Append(directory, name),
          files       |-> [files EXCEPT ![directory] =
                              (name :> [bytes |-> key_bytes.bytes, tag |-> None]) @@ @]]

(***************************************************************************)
(* The walk both scripts share (find_missing_key_files, find_rfid_files).  *)
(***************************************************************************)
\* Path("..").parts
base_path == << <<".", ".">> >>

\* 'scripts'
ScriptsName == <<"s", "c", "r", "i", "p", "t", "s">>

\* '0123456789ABCDEFabcdef'
HexDigits == {"0", "1", "2", "3", "4", "5", "6", "7", "8", "9",
              "A", "B", "C", "D", "E", "F", "a", "b", "c", "d", "e", "f"}

\* The subdirectories of `root` in the tree (os.walk's dirs, as names).
Subdirs(files, root) ==
    {d[Len(d)] : d \in {e \in DOMAIN files : /\ Len(e) = Len(root) + 1
                                            /\ SubSeq(e, 1, Len(root)) = root}}

\* Every order a directory listing may come in.
Orderings(S) ==
    {s \in [1..Cardinality(S) -> S] : \A i, j \in DOMAIN s : s[i] = s[j] => i = j}

\* The two `continue` branches: the root itself, and any directory with
\* 'scripts' among the parts of its path.
WalkSkips(root) ==
    \/ root = base_path
    \/ \E i \in DOMAIN root : root[i] = ScriptsName

\* A variant of WalkDirs that leaves 'scripts' in dirs.
WalkDirsNoPrune(root, dirs) == dirs

\* dirs after the loop body: at the root 'scripts' is removed from it, so that
\* os.walk does not descend there; everywhere else it is left as listed.
WalkDirs(root, dirs) ==
    IF root = base_path THEN dirs \ {ScriptsName} ELSE dirs

\* A variant of IsUidDir that takes 8 characters or more.
IsUidDirAtLeast8(current_dir) ==
    /\ Len(current_dir) >= 8
    /\ \A i \in DOMAIN current_dir : current_dir[i] \in HexDigits

\* len(current_dir) == 8 and all(c in '0123456789ABCDEFabcdef' for c in current_dir)
IsUidDir(current_dir) ==
    /\ Len(current_dir) = 8
    /\ \A i \in DOMAIN current_dir : current_dir[i] \in HexDigits

\* The files of a listing that end in `suffix`.
FilesEnding(files, suffix) == {f \in files : EndsWith(f, suffix)}

\* 'dump.json', 'key.bin', 'dump.bin'
DumpJson == <<"d", "u", "m", "p", ".", "j", "s", "o", "n">>
KeyBin   == <<"k", "e", "y", ".", "b", "i", "n">>
DumpBin  == <<"d", "u", "m", "p", ".", "b", "i", "n">>

\* A variant of MissingKeyEntries that does not look for a key file.
MissingKeyEntriesAnyKey(root, files) ==
    {[directory |-> root, json_file |-> f] : f \in FilesEnding(files, DumpJson)}

\* What find_missing_key_files may append for a UID directory with these files:
\* nothing, or (root, json_files[0]), the first dump.json of the listing, which
\* is any of them as the listing's order is the file system's.
MissingKeyEntries(root, files) ==
    LET json_files == FilesEnding(files, DumpJson)
        key_files  == FilesEnding(files, KeyBin)
    IN  IF json_files # {} /\ key_files = {}
        THEN {[directory |-> root, json_file |-> f] : f \in json_files}
        ELSE {}

\* One iteration of `for root, dirs, files in os.walk(base_path)` in
\* find_missing_key_files.
WalkStep ==
    /\ pc = "walk"
    /\ stack # <<>>
    /\ LET root  == Head(stack)
           dirs  == Subdirs(fs, root)
           files == DOMAIN fs[root]
           isUid == ~WalkSkips(root) /\ IsUidDir(root[Len(root)])
           found == IF isUid THEN MissingKeyEntries(root, files) ELSE {}
       IN  /\ entered' = entered \cup {root}
           /\ classified' = IF isUid THEN classified \cup {root} ELSE classified
           /\ \/ /\ found = {}
                 /\ UNCHANGED missing_key_dirs
              \/ \E e \in found : missing_key_dirs' = Append(missing_key_dirs, e)
           /\ \E order \in Orderings(WalkDirs(root, dirs)) :
                 stack' = [i \in DOMAIN order |-> Append(root, order[i])] \o Tail(stack)
    /\ UNCHANGED <<fs, pc, run, rfid_files, idx, success_count, failed_count,
                   failed_dirs, last, data_list, stats, path_info, calls, writes>>

(***************************************************************************)
(* gen_missing_key.py: main.                                               *)
(***************************************************************************)
\* After find_missing_key_files returns: `if not missing_key_dirs: return`,
\* else the counters are set up and the loop starts.
MainAfterFind ==
    /\ pc = "walk"
    /\ stack = <<>>
    /\ pc' = IF missing_key_dirs = <<>> THEN "done" ELSE "synth"
    /\ idx' = 1
    /\ success_count' = 0
    /\ failed_count' = 0
    /\ failed_dirs' = <<>>
    /\ UNCHANGED <<fs, run, stack, missing_key_dirs, rfid_files, last, data_list,
                   stats, path_info, entered, classified, calls, writes>>

\* failed_dirs after one iteration of the loop.
MainFailedDirs(dirs, success, directory) ==
    IF success THEN dirs ELSE Append(dirs, directory)

\* A variant of MainNextIndex that leaves the loop at the first failure.
MainNextIndexBreak(i, success) ==
    IF success THEN i + 1 ELSE Len(missing_key_dirs) + 1

\* The position of the loop after one iteration: the next entry, whatever the
\* outcome of this one.
MainNextIndex(i, success) == i + 1

\* One iteration of `for i, (directory, json_filename) in enumerate(missing_key_dirs, 1)`.
SynthStep ==
    /\ pc = "synth"
    /\ idx <= Len(missing_key_dirs)
    /\ LET directory     == missing_key_dirs[idx].directory
           json_filename == missing_key_dirs[idx].json_file
       IN  \E r \in {generate_key_file(fs, directory, json_filename)} :
           /\ fs' = r.files
           /\ last' = <<[success |-> r.success, result |-> r.result,
                         output_path |-> r.output_path]>>
           /\ success_count' = IF r.success THEN success_count + 1 ELSE success_count
           /\ failed_count' = IF r.success THEN failed_count ELSE failed_count + 1
           /\ failed_dirs' = MainFailedDirs(failed_dirs, r.success, directory)
           /\ calls' = Append(calls, [directory |-> directory, success |-> r.success])
           /\ writes' = IF r.success
                        THEN Append(writes, [run |-> run, path |-> r.output_path])
                        ELSE writes
           /\ idx' = MainNextIndex(idx, r.success)
           /\ pc' = IF idx' > Len(missing_key_dirs) THEN "done" ELSE "synth"
    /\ UNCHANGED <<run, stack, missing_key_dirs, rfid_files, data_list, stats,
                   path_info, entered, classified>>

\* The tool is started again over the tree the last run left.
Rerun ==
    /\ pc = "done"
    /\ run < MaxRuns
    /\ run' = run + 1
    /\ pc' = "walk"
    /\ stack' = <<base_path>>
    /\ missing_key_dirs' = <<>>
    /\ rfid_files' = <<>>
    /\ idx' = 1
    /\ success_count' = 0
    /\ failed_count' = 0
    /\ failed_dirs' = <<>>
    /\ last' = <<>>
    /\ data_list' = <<>>
    /\ stats' = EmptyDict
    /\ path_info' = <<>>
    /\ entered' = {}
    /\ classified' = {}
    /\ calls' = <<>>
    /\ UNCHANGED <<fs, writes>>

(***************************************************************************)
(* gen_excel.py.                                                           *)
(***************************************************************************)
\* The placeholder of the source for "unknown" (two CJK characters there).
Unknown == <<"unknown">>

\* The placeholder of the source for "parse failed" (four CJK characters there).
ParseFailed == <<"parse failed">>

\* 'Black', one key of color_map, and the value color_map gives it.
NameBlack    == <<"B", "l", "a", "c", "k">>
BlackChinese == <<"Black in Chinese">>

\* color_map, cut to the colours that are directory names of the model.
color_map == NameBlack :> BlackChinese

\* translate_color(english_color)
translate_color(english_color) == Get(color_map, english_color, english_color)

\* [part for part in path_parts if part not in ['.', '..']]
RECURSIVE RelevantParts(_)
RelevantParts(path_parts) ==
    IF path_parts = <<>> THEN <<>>
    ELSE IF Head(path_parts) \in {<<".">>, <<".", ".">>}
         THEN RelevantParts(Tail(path_parts))
         ELSE <<Head(path_parts)>> \o RelevantParts(Tail(path_parts))

\* A variant of extract_path_info that asks for 4 parts, not 3.
extract_path_info_4(file_path) ==
    LET relevant_parts == RelevantParts(file_path) IN
    IF Len(relevant_parts) >= 4
    THEN LET color         == relevant_parts[3]
             color_chinese == translate_color(color)
         IN  [material_category |-> relevant_parts[1],
              material_type     |-> relevant_parts[2],
              color             |-> color,
              uid               |-> relevant_parts[4],
              color_display     |-> IF color_chinese # color
                                    THEN color_chinese \o <<"/">> \o color
                                    ELSE color]
    ELSE [material_category |-> Unknown, material_type |-> Unknown, color |-> Unknown,
          uid |-> Unknown, color_display |-> Unknown]

\* extract_path_info(file_path): the five values it returns.
extract_path_info(file_path) ==
    LET relevant_parts == RelevantParts(file_path) IN
    IF Len(relevant_parts) >= 3
    THEN LET color         == relevant_parts[3]
             color_chinese == translate_color(color)
         IN  [material_category |-> relevant_parts[1],
              material_type     |-> relevant_parts[2],
              color             |-> color,
              uid               |-> IF Len(relevant_parts) > 3 THEN relevant_parts[4]
                                    ELSE Unknown,
              color_display     |-> IF color_chinese # color
                                    THEN color_chinese \o <<"/">> \o color
                                    ELSE color]
    ELSE [material_category |-> Unknown, material_type |-> Unknown, color |-> Unknown,
          uid |-> Unknown, color_display |-> Unknown]

\* One iteration of `for root, dirs, files in os.walk(base_path)` in
\* find_rfid_files: every dump.bin of a UID directory is appended, in the
\* listing's order.
ReportWalkStep ==
    /\ pc = "walk"
    /\ stack # <<>>
    /\ LET root  == Head(stack)
           dirs  == Subdirs(fs, root)
           files == DOMAIN fs[root]
           isUid == ~WalkSkips(root) /\ IsUidDir(root[Len(root)])
           found == IF isUid THEN FilesEnding(files, DumpBin) ELSE {}
       IN  /\ entered' = entered \cup {root}
           /\ classified' = IF isUid THEN classified \cup {root} ELSE classified
           /\ \E listing \in Orderings(found) :
                 rfid_files' = rfid_files \o
                                 [i \in DOMAIN listing |-> Append(root, listing[i])]
           /\ \E order \in Orderings(WalkDirs(root, dirs)) :
                 stack' = [i \in DOMAIN order |-> Append(root, order[i])] \o Tail(stack)
    /\ UNCHANGED <<fs, pc, run, missing_key_dirs, idx, success_count, failed_count,
                   failed_dirs, last, data_list, stats, path_info, calls, writes>>

\* load_parser_module() returns None (parse.py cannot be loaded): main
\* returns before the search.
LoadParserFails ==
    /\ pc = "walk"
    /\ entered = {}
    /\ pc' = "done"
    /\ stack' = <<>>
    /\ UNCHANGED <<fs, run, missing_key_dirs, rfid_files, idx, success_count,
                   failed_count, failed_dirs, last, data_list, stats, path_info,
                   entered, classified, calls, writes>>

\* After find_rfid_files returns: data_list = [], stats = defaultdict(int), and
\* the loop over rfid_files starts.
ReportAfterFind ==
    /\ pc = "walk"
    /\ stack = <<>>
    /\ pc' = IF rfid_files = <<>> THEN "done" ELSE "report"
    /\ idx' = 1
    /\ data_list' = <<>>
    /\ stats' = EmptyDict
    /\ UNCHANGED <<fs, run, stack, missing_key_dirs, rfid_files, success_count,
                   failed_count, failed_dirs, last, path_info, entered, classified,
                   calls, writes>>

\* parse_rfid_file(file_path, parse_module): the tag the parser makes of the
\* file's bytes, or None when the file cannot be read or the parser raises.
\* The parser is not part of the repository's sources: what it makes of a
\* file is part of the file's content here.
parse_rfid_file(files, file_path) ==
    LET directory == SubSeq(file_path, 1, Len(file_path) - 1)
        name      == file_path[Len(file_path)]
    IN  IF directory \notin DOMAIN files \/ name \notin DOMAIN files[directory]
        THEN None
        ELSE files[directory][name].tag

\* tag.data.get('temperatures', {}).get(which, {}).value if it has one, else None
HotendTemp(data, which) ==
    LET temperatures == Get(data, "temperatures", EmptyDict)
    IN  IF which \in DOMAIN temperatures THEN <<temperatures[which]>> ELSE None

\* temp_range
TempRange(min_temp, max_temp) ==
    IF min_temp # None /\ max_temp # None
    THEN <<Str(min_temp[1]), "-", Str(max_temp[1]), "C">>
    ELSE IF min_temp # None THEN <<Str(min_temp[1]), "C">>
    ELSE IF max_temp # None THEN <<Str(max_temp[1]), "C">>
    ELSE Unknown

\* A variant of ReportRow whose failure row leaves the UID 'unknown'.
ReportRowUnknownUid(info, tag) ==
    IF tag # None
    THEN LET data == tag[1].data
         IN  [material_type |-> info.material_type,
              color         |-> info.color_display,
              uid           |-> Get(data, "uid", Unknown),
              color_code    |-> Get(data, "filament_color", Unknown),
              print_temp    |-> TempRange(HotendTemp(data, "min_hotend"),
                                          HotendTemp(data, "max_hotend"))]
    ELSE [material_type |-> info.material_type,
          color         |-> info.color_display,
          uid           |-> Unknown,
          color_code    |-> ParseFailed,
          print_temp    |-> ParseFailed]

\* The row appended for a file, given what extract_path_info and
\* parse_rfid_file returned.  The fields are the five columns of the sheet:
\* material type, colour, UID, colour code, print temperature.
ReportRow(info, tag) ==
    IF tag # None
    THEN LET data == tag[1].data
         IN  [material_type |-> info.material_type,
              color         |-> info.color_display,
              uid           |-> Get(data, "uid", Unknown),
              color_code    |-> Get(data, "filament_color", Unknown),
              print_temp    |-> TempRange(HotendTemp(data, "min_hotend"),
                                          HotendTemp(data, "max_hotend"))]
    ELSE [material_type |-> info.material_type,
          color         |-> info.color_display,
          uid           |-> ParseFailed,
          color_code    |-> ParseFailed,
          print_temp    |-> ParseFailed]

\* stats[key] += 1
Count(counters, key) == (key :> Get(counters, key, 0) + 1) @@ counters

\* One iteration of `for i, file_path in enumerate(rfid_files, 1)`.
ReportStep ==
    /\ pc = "report"
    /\ idx <= Len(rfid_files)
    /\ LET file_path == rfid_files[idx]
           info      == extract_path_info(file_path)
           tag       == parse_rfid_file(fs, file_path)
       IN  /\ path_info' = <<info>>
           /\ data_list' = Append(data_list, ReportRow(info, tag))
           /\ stats' = IF tag # None
                       THEN Count(Count(stats, <<"material_type", info.material_type>>),
                                  <<"color", info.color>>)
                       ELSE stats
           /\ calls' = Append(calls, [file_path |-> file_path, success |-> tag # None])
    /\ idx' = idx + 1
    /\ pc' = IF idx' > Len(rfid_files) THEN "done" ELSE "report"
    /\ UNCHANGED <<fs, run, stack, missing_key_dirs, rfid_files, success_count,
                   failed_count, failed_dirs, last, entered, classified, writes>>

(***************************************************************************)
(* The inputs: directory names, file names, documents, trees.              *)
(***************************************************************************)
\* Directory names: one of every kind the walk tells apart.
NamePLA      == <<"P", "L", "A">>
NameUid      == <<"0", "4", "a", "B", "c", "D", "9", "f">>        \* 8 hex digits, mixed case
NameNotHex   == <<"0", "4", "a", "B", "c", "D", "9", "g">>        \* 8 characters, one not hex
NameSevenHex == <<"0", "4", "a", "B", "c", "D", "9">>             \* 7 hex digits
NameNineHex  == <<"0", "4", "a", "B", "c", "D", "9", "f", "0">>   \* 9 hex digits

DirNames == {ScriptsName, NamePLA, NameUid, NameNotHex, NameSevenHex, NameNineHex}

\* The names among DirNames that have the shape of a Tag Directory's name.
TagNames == {NameUid}

\* File names.
JsonA   == <<"a", "-">> \o DumpJson                \* 'a-dump.json'
JsonB   == <<"b", "-">> \o DumpJson                \* 'b-dump.json'
BinA    == <<"a", "-">> \o DumpBin                 \* 'a-dump.bin'
BinB    == <<"b", "-">> \o DumpBin                 \* 'b-dump.bin'
JsonBak == DumpJson \o <<".", "b", "a", "k">>      \* 'dump.json.bak'

\* Key strings.
KeyAB    == <<"A", "A", "B", "B", "C", "C", "D", "D", "E", "E", "F", "F">>
Key01    == <<"0", "1", "2", "3", "4", "5", "6", "7", "8", "9", "a", "b">>
KeyShort == <<"A", "A", "B", "B">>                                  \* hex, 4 characters
KeySpace == <<"A", "A", " ", "B", "B", " ", "C", "C", " ", "D", "D", " ", "E", "E", " ", "F", "F">>
KeyOdd   == <<"A", "A", "B", "B", "C", "C", "D", "D", "E", "E", "F">>     \* hex, 11 characters
KeyNotHex == <<"A", "A", "B", "B", "C", "C", "D", "D", "E", "E", "F", "G">>  \* 12 characters

\* The well-formed keys (12 hexadecimal characters) with the 6 bytes each stands for.
WellFormedKeys ==
    (KeyAB :> <<170, 187, 204, 221, 238, 255>>) @@
    (Key01 :> <<1, 35, 69, 103, 137, 171>>) @@
    (DefaultKey :> <<255, 255, 255, 255, 255, 255>>)

\* A Card.UID, taken as a file name part: mixed case, no path separator.
Uid1 == <<"0", "4", "1", "1", "a", "B">>

\* Documents.
Json(data) == [parses |-> TRUE, data |-> data]
NotJson    == [parses |-> FALSE]
DataOk     == [Card |-> [UID |-> Uid1],
               SectorKeys |-> ("3" :> [KeyA |-> KeyAB, KeyB |-> Key01])]
DataNoUid  == [Card |-> EmptyDict,
               SectorKeys |-> ("3" :> [KeyA |-> KeyAB, KeyB |-> Key01])]
DataNoSectorKeys == [Card |-> [UID |-> Uid1]]
DataBadKey == [Card |-> [UID |-> Uid1],
               SectorKeys |-> ("0" :> [KeyA |-> KeyAB] @@ "15" :> [KeyB |-> KeyNotHex])]

\* A file that is no document: its bytes, and what the tag parser makes of
\* them (None: it raises).
Dump(tag) == [bytes |-> <<0>>, tag |-> tag]
OldBytes  == Dump(None)

\* What the parser may make of a dump.bin: a tag whose data holds these fields.
TagUid   == <<"7", "5", "8", "8", "6", "B", "1", "D">>
TagColor == <<"#", "0", "0", "0", "0", "0", "0", "F", "F">>
TagFull  == <<[data |-> [uid |-> TagUid, filament_color |-> TagColor,
                         temperatures |-> [min_hotend |-> 190, max_hotend |-> 230]]]>>
TagMin   == <<[data |-> [uid |-> TagUid, temperatures |-> [min_hotend |-> 190]]]>>
TagBare  == <<[data |-> EmptyDict]>>

\* The files a directory named like a Tag Directory may hold in Spec.
FileConfigs ==
    { EmptyDict,
      JsonA :> Json(DataOk),
      JsonA :> Json(DataOk) @@ OutputName(Uid1) :> OldBytes,
      JsonA :> Json(DataNoUid),
      JsonA :> NotJson,
      JsonA :> Json(DataBadKey),
      JsonA :> Json(DataNoSectorKeys),
      JsonA :> Json(DataOk) @@ JsonB :> Json(DataNoUid) @@ BinA :> OldBytes,
      BinA :> OldBytes @@ JsonBak :> Json(DataOk) }

\* The files every other directory holds: never looked at by the walk.
OtherFiles == JsonA :> Json(DataOk) @@ BinA :> OldBytes

\* A directory of a chain: its name and its files.
DirEntries(configs) ==
    {[name |-> n, files |-> c] : n \in TagNames, c \in configs}
    \cup {[name |-> n, files |-> OtherFiles] : n \in DirNames \ TagNames}

\* The chains of at most `depth` nested directories.
Chains(configs, depth) ==
    UNION {[1..k -> DirEntries(configs)] : k \in 0..depth}

\* Where a tree holds a tooling directory 'scripts' (with, inside it, a
\* directory named like a Tag Directory that holds a document and a dump)
\* beside its chain: nowhere, in the root, or in the chain's last directory.
Toolings == {"none", "root", "leaf"}

\* The tree a chain and a tooling directory make below the root.
TreeOf(chain, tooling) ==
    LET pathOf(k) == base_path \o [i \in 1..k |-> chain[i].name]
        chainFs   == [p \in {pathOf(k) : k \in 0..Len(chain)} |->
                         IF Len(p) = 1 THEN OtherFiles ELSE chain[Len(p) - 1].files]
        at        == IF tooling = "root" THEN base_path ELSE pathOf(Len(chain))
        toolFs    == (Append(at, ScriptsName) :> OtherFiles) @@
                     (at \o <<ScriptsName, NameUid>> :>
                         (JsonA :> Json(DataOk) @@ BinA :> Dump(TagFull)))
    IN  IF tooling = "none" THEN chainFs ELSE chainFs @@ toolFs

\* The state a run starts in, over the tree `tree`.
StartWith(tree, where, files) ==
    /\ fs = tree
    /\ pc = where
    /\ run = 1
    /\ stack = <<base_path>>
    /\ missing_key_dirs = <<>>
    /\ rfid_files = files
    /\ idx = 1
    /\ success_count = 0
    /\ failed_count = 0
    /\ failed_dirs = <<>>
    /\ last = <<>>
    /\ data_list = <<>>
    /\ stats = EmptyDict
    /\ path_info = <<>>
    /\ entered = {}
    /\ classified = {}
    /\ calls = <<>>
    /\ writes = <<>>

Start(tree, where) == StartWith(tree, where, <<>>)

(***************************************************************************)
(* Spec: gen_missing_key.py run MaxRuns times over a tree.                 *)
(***************************************************************************)
Init ==
    \E chain \in Chains(FileConfigs, MaxDepth), tooling \in Toolings :
        Start(TreeOf(chain, tooling), "walk")

Next == WalkStep \/ MainAfterFind \/ SynthStep \/ Rerun

Spec == Init /\ [][Next]_vars

(***************************************************************************)
(* SpecReport: gen_excel.py run once over a tree.                          *)
(***************************************************************************)
ReportDirNames == {ScriptsName, NamePLA, NameBlack, NameUid}

\* The files a directory named like a Tag Directory may hold in SpecReport.
ReportFileConfigs ==
    { JsonA :> Json(DataOk),
      BinA :> Dump(None),
      BinA :> Dump(TagFull),
      BinA :> Dump(TagMin),
      BinA :> Dump(TagBare),
      BinA :> Dump(None) @@ BinB :> Dump(TagFull) @@ JsonA :> Json(DataOk) }

ReportDirEntries ==
    {[name |-> n, files |-> c] : n \in TagNames, c \in ReportFileConfigs}
    \cup {[name |-> n, files |-> OtherFiles] : n \in ReportDirNames \ TagNames}

ReportChains == UNION {[1..k -> ReportDirEntries] : k \in 0..MaxReportDepth}

InitReport ==
    \E chain \in ReportChains, tooling \in Toolings :
        Start(TreeOf(chain, tooling), "walk")

NextReport == LoadParserFails \/ ReportWalkStep \/ ReportAfterFind \/ ReportStep

SpecReport == InitReport /\ [][NextReport]_vars

(***************************************************************************)
(* SpecKey: gen_missing_key.py run once over a tree of one Tag Directory   *)
(* that holds one document, drawn from a wide set of documents.            *)
(***************************************************************************)
\* The sectors a document of SpecKey may have entries for.
SampleSectors == {"0", "3", "15"}

\* What a KeyA or KeyB field may hold.
KeyChoices == {KeyAB, Key01, KeyShort, KeySpace, KeyOdd, KeyNotHex}

\* The sector entries: dicts with KeyA, KeyB, both or neither.
SectorEntries ==
    UNION {[fields -> KeyChoices] : fields \in SUBSET {"KeyA", "KeyB"}}

\* The SectorKeys mappings with at most MaxEntries entries.
SectorKeyMaps ==
    UNION {[sectors -> SectorEntries] :
              sectors \in {t \in SUBSET SampleSectors : Cardinality(t) <= MaxEntries}}

KeyDocuments ==
    {NotJson, Json(EmptyDict), Json(DataNoUid), Json(DataNoSectorKeys)}
    \cup {Json([Card |-> [UID |-> Uid1], SectorKeys |-> m]) : m \in SectorKeyMaps}

InitKey ==
    \E doc \in KeyDocuments :
        Start(TreeOf(<<[name |-> NameUid, files |-> JsonA :> doc]>>, "none"), "walk")

NextKey == WalkStep \/ MainAfterFind \/ SynthStep

SpecKey == InitKey /\ [][NextKey]_vars

(***************************************************************************)
(* SpecPath: extract_path_info applied to one path.                        *)
(***************************************************************************)
\* The longest path of SpecPath, in parts.
MaxPathLen == 4

PathParts == {<<".">>, <<".", ".">>, NamePLA, NameBlack, NameUid, BinA}

InitPath ==
    \E file_path \in UNION {[1..k -> PathParts] : k \in 0..MaxPathLen} :
        StartWith(TreeOf(<<>>, "none"), "call", <<file_path>>)

\* material_category, ..., color_display = extract_path_info(file_path)
ExtractStep ==
    /\ pc = "call"
    /\ path_info' = <<extract_path_info(rfid_files[1])>>
    /\ pc' = "done"
    /\ UNCHANGED <<fs, run, stack, missing_key_dirs, rfid_files, idx, success_count,
                   failed_count, failed_dirs, last, data_list, stats, entered,
                   classified, calls, writes>>

NextPath == ExtractStep

SpecPath == InitPath /\ [][NextPath]_vars

(***************************************************************************)
(* The claims about generate_key_file, under SpecKey.                      *)
(***************************************************************************)
\* The Tag Directory of SpecKey's tree, its document, and the key file.
KeyDir     == Append(base_path, NameUid)
KeyDoc     == fs[KeyDir][JsonA]
KeyFile    == OutputName(Uid1)
Synthesized == calls # <<>>

\* The document has Card.UID.
HasUid(doc) ==
    /\ doc.parses
    /\ "Card" \in DOMAIN doc.data
    /\ "UID" \in DOMAIN doc.data["Card"]

\* The KeyA and KeyB strings a SectorKeys mapping holds.
PresentKeys(m) ==
    {m[e[1]][e[2]] : e \in {x \in (DOMAIN m) \X {"KeyA", "KeyB"} : x[2] \in DOMAIN m[x[1]]}}

\* A 12-character hexadecimal string.
IsTwelveHex(k) == Len(k) = 12 /\ \A i \in DOMAIN k : k[i] \in HexDigits

SixFF == <<255, 255, 255, 255, 255, 255>>

\* The 6 bytes slot `sector` of one half of the blob is to hold.
ExpectedSlot(m, sector, field) ==
    IF Str(sector) \in DOMAIN m /\ field \in DOMAIN m[Str(sector)]
    THEN WellFormedKeys[m[Str(sector)][field]]
    ELSE SixFF

\* The k-th six-byte slot of a blob, k from 0.
Slot(bytes, k) == SubSeq(bytes, 6 * k + 1, 6 * k + 6)

\* C1: for a document with Card.UID and a SectorKeys mapping whose present
\* KeyA/KeyB are all well-formed 12-character hex strings, generate_key_file
\* succeeds, reports 192 bytes and writes 192 bytes: slot i holds sector i's
\* KeyA, slot 16+i sector i's KeyB, and FF FF FF FF FF FF where the sector
\* entry or the key field is absent.
C1_BlobLayout ==
    (/\ Synthesized
     /\ HasUid(KeyDoc)
     /\ "SectorKeys" \in DOMAIN KeyDoc.data
     /\ PresentKeys(KeyDoc.data["SectorKeys"]) \subseteq DOMAIN WellFormedKeys)
    => /\ last[1].success
       /\ last[1].result = 192
       /\ last[1].output_path = Append(KeyDir, KeyFile)
       /\ KeyFile \in DOMAIN fs[KeyDir]
       /\ LET blob == fs[KeyDir][KeyFile].bytes
              m    == KeyDoc.data["SectorKeys"]
          IN  /\ Len(blob) = 192
              /\ \A i \in 0..15 :
                    /\ Slot(blob, i) = ExpectedSlot(m, i, "KeyA")
                    /\ Slot(blob, 16 + i) = ExpectedSlot(m, i, "KeyB")

\* C1's case: the document whose only entry is sector "3" with KeyA
\* AABBCCDDEEFF has been synthesized; and one with KeyA and KeyB in two sectors.
C1_Witness ==
    /\ Synthesized
    /\ last[1].success
    /\ HasUid(KeyDoc)
    /\ "SectorKeys" \in DOMAIN KeyDoc.data
    /\ KeyDoc.data["SectorKeys"] = ("3" :> [KeyA |-> KeyAB])
    /\ Slot(fs[KeyDir][KeyFile].bytes, 3) = <<170, 187, 204, 221, 238, 255>>

\* C3, as claimed: a document with Card.UID and no SectorKeys key is
\* synthesized into 192 bytes of 0xFF.
C3_Original ==
    (Synthesized /\ HasUid(KeyDoc) /\ "SectorKeys" \notin DOMAIN KeyDoc.data)
    => /\ last[1].success
       /\ KeyFile \in DOMAIN fs[KeyDir]
       /\ fs[KeyDir][KeyFile].bytes = [i \in 1..192 |-> 255]

\* C3, amended: with Card.UID and no SectorKeys key the synthesis fails with a
\* KeyError and writes nothing; the 192 bytes of 0xFF are what a document with
\* Card.UID and an empty SectorKeys mapping gives.
C3_Amended ==
    /\ (Synthesized /\ HasUid(KeyDoc) /\ "SectorKeys" \notin DOMAIN KeyDoc.data)
       => /\ ~last[1].success
          /\ last[1].result = "KeyError"
          /\ last[1].output_path = None
          /\ DOMAIN fs[KeyDir] = {JsonA}
    /\ (/\ Synthesized
        /\ HasUid(KeyDoc)
        /\ "SectorKeys" \in DOMAIN KeyDoc.data
        /\ KeyDoc.data["SectorKeys"] = EmptyDict)
       => /\ last[1].success
          /\ last[1].result = 192
          /\ fs[KeyDir][KeyFile].bytes = [i \in 1..192 |-> 255]

\* C3's case: the document with Card.UID and no SectorKeys has been through
\* generate_key_file.
C3_Witness ==
    /\ Synthesized
    /\ KeyDoc = Json(DataNoSectorKeys)
    /\ ~last[1].success

\* C4, as claimed: when a KeyA or KeyB string read for a sector 0..15 is not
\* valid hexadecimal or not exactly 12 characters long, generate_key_file
\* fails; so every success reports 192 bytes.
C4_Claim ==
    (Synthesized /\ HasUid(KeyDoc) /\ "SectorKeys" \in DOMAIN KeyDoc.data)
    => LET m == KeyDoc.data["SectorKeys"]
           read == {KeyHex(m, i, f) : i \in 0..15, f \in {"KeyA", "KeyB"}}
       IN  /\ (\E k \in read : ~IsTwelveHex(k)) => ~last[1].success
           /\ last[1].success => last[1].result = 192

(***************************************************************************)
(* The claims about gen_missing_key.py's walk and batch, under Spec.       *)
(***************************************************************************)
\* The directories of the tree that are Tag Directories by the claim's rule:
\* not the root, named like a Tag Directory, no 'scripts' on the way.
ExpectedTagDirs ==
    {d \in DOMAIN fs : /\ Len(d) > 1
                       /\ d[Len(d)] \in TagNames
                       /\ \A i \in DOMAIN d : d[i] # ScriptsName}

WalkDone == pc \in {"synth", "done"}

\* The entries of missing_key_dirs generate_key_file is still to be called for.
Pending ==
    {k \in DOMAIN missing_key_dirs : pc = "walk" \/ (pc = "synth" /\ k >= idx)}

\* 'hf-mf-0411aB-key.bin'
KeyFileLiteral ==
    <<"h", "f", "-", "m", "f", "-", "0", "4", "1", "1", "a", "B",
      "-", "k", "e", "y", ".", "b", "i", "n">>

\* C2: generate_key_file is only called for a Tag Directory that holds a
\* dump.json and no file ending in key.bin; a success writes
\* hf-mf-<UID>-key.bin into that directory, and no directory is written twice,
\* in one run or over several.
C2_WriteOnce ==
    /\ \A k \in Pending :
          LET e == missing_key_dirs[k]
          IN  /\ e.directory \in ExpectedTagDirs
              /\ e.json_file \in DOMAIN fs[e.directory]
              /\ EndsWith(e.json_file, DumpJson)
              /\ \A f \in DOMAIN fs[e.directory] : ~EndsWith(f, KeyBin)
    /\ \A i \in DOMAIN writes :
          LET directory == SubSeq(writes[i].path, 1, Len(writes[i].path) - 1)
          IN  /\ directory \in ExpectedTagDirs
              /\ writes[i].path[Len(writes[i].path)] = KeyFileLiteral
              /\ KeyFileLiteral \in DOMAIN fs[directory]
              /\ \A j \in DOMAIN writes :
                    SubSeq(writes[j].path, 1, Len(writes[j].path) - 1) = directory
                    => i = j

\* C2's case: a first run wrote a key file, and a second run over the tree is
\* through without selecting anything.
C2_Witness ==
    /\ run = 2
    /\ pc = "done"
    /\ writes # <<>>
    /\ \A i \in DOMAIN writes : writes[i].run = 1
    /\ missing_key_dirs = <<>>

\* C5: the walk treats a directory as a Tag Directory exactly when it is not
\* the root, its name is 8 hexadecimal digits, and neither it nor an ancestor
\* is 'scripts'.
C5_Classification ==
    /\ classified \subseteq ExpectedTagDirs
    /\ \A k \in DOMAIN missing_key_dirs : missing_key_dirs[k].directory \in ExpectedTagDirs
    /\ WalkDone => classified = ExpectedTagDirs

\* C5's case: the walk is through a tree with a directory named like a Tag
\* Directory below 'scripts', a name of 9 hexadecimal digits, and a Tag
\* Directory nested below a directory that is none.
C5_Witness ==
    /\ WalkDone
    /\ \E d \in DOMAIN fs : d[Len(d)] = NameUid /\ \E i \in DOMAIN d : d[i] = ScriptsName
    /\ \E d \in DOMAIN fs : d[Len(d)] = NameNineHex
    /\ \E d \in classified : Len(d) = 3 /\ d[2] \notin TagNames

\* C6: main calls generate_key_file once per discovered directory, in list
\* order, whatever the outcomes; the two counters add up to the number of
\* calls, and failed_dirs lists the directories whose synthesis failed.
C6_BatchIsolation ==
    WalkDone =>
        /\ Len(calls) <= Len(missing_key_dirs)
        /\ pc = "synth" => Len(calls) = idx - 1
        /\ pc = "done" => Len(calls) = Len(missing_key_dirs)
        /\ \A k \in DOMAIN calls :
              /\ calls[k].directory = missing_key_dirs[k].directory
              /\ calls[k].success =
                    (fs[calls[k].directory][missing_key_dirs[k].json_file] = Json(DataOk))
        /\ success_count = Cardinality({k \in DOMAIN calls : calls[k].success})
        /\ failed_count = Cardinality({k \in DOMAIN calls : ~calls[k].success})
        /\ success_count + failed_count = Len(calls)
        /\ failed_dirs = LET failed == SelectSeq(calls, LAMBDA c : ~c.success)
                         IN  [k \in DOMAIN failed |-> failed[k].directory]

\* C6's case: a batch is through in which a failure came before a success.
C6_Witness ==
    /\ pc = "done"
    /\ Len(calls) = 2
    /\ ~calls[1].success
    /\ calls[2].success
    /\ failed_dirs = <<calls[1].directory>>

\* C9, as claimed: the walk never enters a directory named 'scripts' or a
\* descendant of one.
C9_Original ==
    \A d \in entered : \A i \in DOMAIN d : d[i] # ScriptsName

\* The directories below the root's own 'scripts'.
InRootScripts(d) == Len(d) >= 2 /\ d[2] = ScriptsName

\* C9, amended: the walk never enters the root's 'scripts' directory or a
\* descendant of it, and enters every other directory of the tree: those that
\* fail the 8-hex test, and also a 'scripts' directory deeper in the tree and
\* its descendants, which are entered and then skipped.
C9_Amended ==
    /\ \A d \in entered : ~InRootScripts(d)
    /\ WalkDone => entered = {d \in DOMAIN fs : ~InRootScripts(d)}

\* C9's case: the walk is through a tree that has a 'scripts' directory in the
\* root, and it went through a directory that is no Tag Directory into a
\* deeper one.
C9_Witness ==
    /\ WalkDone
    /\ Append(base_path, ScriptsName) \in DOMAIN fs
    /\ \E d \in entered : Len(d) = 3 /\ d[2] = NameNotHex

\* C10: no step changes or removes a file that exists, or adds a directory;
\* a failing generate_key_file call changes nothing at all.
C10_Frame ==
    [][/\ DOMAIN fs' = DOMAIN fs
       /\ \A d \in DOMAIN fs : \A f \in DOMAIN fs[d] :
             f \in DOMAIN fs'[d] /\ fs'[d][f] = fs[d][f]
       /\ failed_count' > failed_count => fs' = fs]_vars

\* C10's case: a batch is through with a failure and with a success that wrote
\* a new key file beside a document.
C10_Witness ==
    /\ pc = "done"
    /\ failed_count >= 1
    /\ \E d \in DOMAIN fs :
          /\ KeyFileLiteral \in DOMAIN fs[d]
          /\ fs[d][KeyFileLiteral] # OldBytes
          /\ JsonA \in DOMAIN fs[d]

(***************************************************************************)
(* The claims about gen_excel.py, under SpecReport and SpecPath.           *)
(***************************************************************************)
\* What the claims expect of a path's parts below '..': the material type
\* and the colour as displayed.
PathMaterialType(file_path) == IF Len(file_path) >= 4 THEN file_path[3] ELSE Unknown
PathColorDisplay(file_path) ==
    IF Len(file_path) < 4 THEN Unknown
    ELSE IF file_path[4] = NameBlack THEN BlackChinese \o <<"/">> \o NameBlack
    ELSE file_path[4]

\* The rows and the parse calls go together, one per file so far.
RowPerFile ==
    /\ Len(data_list) = Len(calls)
    /\ pc = "report" => Len(calls) = idx - 1
    /\ pc = "done" => Len(data_list) = Len(rfid_files)
    /\ \A k \in DOMAIN calls :
          /\ calls[k].file_path = rfid_files[k]
          /\ calls[k].success = (parse_rfid_file(fs, rfid_files[k]) # None)

\* C7, as claimed: a file whose parse fails gets one row with all five
\* fields set to the failure placeholder.
C7_Original ==
    /\ RowPerFile
    /\ \A k \in DOMAIN data_list :
          ~calls[k].success =>
              /\ data_list[k].material_type = ParseFailed
              /\ data_list[k].color = ParseFailed
              /\ data_list[k].uid = ParseFailed
              /\ data_list[k].color_code = ParseFailed
              /\ data_list[k].print_temp = ParseFailed

\* C7, amended: a file whose parse fails gets one row whose UID, colour code
\* and print temperature are the failure placeholder, while material type and
\* colour are those of the file's path; the rows are as many as the files.
C7_Amended ==
    /\ RowPerFile
    /\ \A k \in DOMAIN data_list :
          ~calls[k].success =>
              /\ data_list[k].material_type = PathMaterialType(rfid_files[k])
              /\ data_list[k].color = PathColorDisplay(rfid_files[k])
              /\ data_list[k].uid = ParseFailed
              /\ data_list[k].color_code = ParseFailed
              /\ data_list[k].print_temp = ParseFailed

\* C7's case: the loop is through files of which one failed to parse, in a
\* directory deep enough for its path to name a material type, and one parsed.
C7_Witness ==
    /\ pc = "done"
    /\ \E k \in DOMAIN calls : /\ ~calls[k].success
                               /\ data_list[k].uid = ParseFailed
                               /\ data_list[k].material_type = NamePLA
    /\ \E k \in DOMAIN calls : calls[k].success

\* The path extract_path_info was last called with: the file of the loop's
\* last iteration (SpecReport), or the one path of SpecPath.
LastPath == IF pc = "done" /\ idx = 1 THEN rfid_files[1] ELSE rfid_files[idx - 1]

\* The parts of a path other than '.' and '..'.
PartsBelow(file_path) ==
    SelectSeq(file_path, LAMBDA part : part \notin {<<".">>, <<".", ".">>})

\* C8, as claimed: the parts other than '.' and '..' at positions 0,1,2,3
\* are category, type, colour and UID; with fewer than 4 of them all four
\* are the 'unknown' placeholder.
C8_Original ==
    path_info # <<>> =>
        LET parts == PartsBelow(LastPath)
            info  == path_info[1]
        IN  IF Len(parts) >= 4
            THEN /\ info.material_category = parts[1]
                 /\ info.material_type = parts[2]
                 /\ info.color = parts[3]
                 /\ info.uid = parts[4]
            ELSE /\ info.material_category = Unknown
                 /\ info.material_type = Unknown
                 /\ info.color = Unknown
                 /\ info.uid = Unknown

\* C8, amended: with 4 parts or more, positions 0,1,2,3 are category, type,
\* colour and UID; with exactly 3, positions 0,1,2 are category, type and
\* colour and only the UID is 'unknown'; with fewer than 3 all four are
\* 'unknown'.
C8_Amended ==
    path_info # <<>> =>
        LET parts == PartsBelow(LastPath)
            info  == path_info[1]
        IN  IF Len(parts) >= 3
            THEN /\ info.material_category = parts[1]
                 /\ info.material_type = parts[2]
                 /\ info.color = parts[3]
                 /\ info.uid = IF Len(parts) >= 4 THEN parts[4] ELSE Unknown
            ELSE /\ info.material_category = Unknown
                 /\ info.material_type = Unknown
                 /\ info.color = Unknown
                 /\ info.uid = Unknown

\* C8's case: extract_path_info was called with a path of exactly 3 parts
\* after a '..'.
C8_Witness ==
    /\ path_info # <<>>
    /\ Len(LastPath) = 4
    /\ LastPath[1] = <<".", ".">>
    /\ path_info[1].material_category = NamePLA
    /\ path_info[1].uid = Unknown

====
